---- MODULE Spec2Model ----
(***************************************************************************)
(* bevy_irc: the per-tick pipeline of systems (src/src/systems.rs) and the *)
(* observers (src/src/observers.rs) that drive IRC sessions.               *)
(*                                                                         *)
(* A session is an entity; its components (Connecting, Sender, Stream,     *)
(* Registered, Identifying, Pinger, Channels, Capabilities, Auth) are the  *)
(* state.  Every system reads the world and pushes deferred commands; the  *)
(* commands of a tick are applied together, in system order, when the      *)
(* schedule ends.  Triggers run their observers while the commands are     *)
(* applied, and an observer's own commands are applied right after it.     *)
(***************************************************************************)
EXTENDS Integers, Sequences, FiniteSets, TLC

\* ------------------------------------------------------------- bounds
\* Connect attempts per session: the environment may break a connection
\* (send error, stream end) only while the session has started fewer than
\* MaxConnects attempts, and may fail an attempt only while the session has
\* started at most MaxConnects.
MaxConnects == 2
\* Messages one poll of a stream may yield before it reports "not ready".
MaxMsgs == 1

\* ------------------------------------------------- program constants
\* systems.rs:103  `elapsed_secs() < 600.0`
PingThreshold == 600

\* ------------------------------------------------------------ domains
Sessions == {1, 2}
ChannelLists == {<<"#b">>, <<"#a", "#b">>}
CapLists == {<<"tags">>, <<"tags", "commands">>}
Tokens == {"t1", "t2"}
\* Elapsed real time of one tick, in seconds.
Deltas == {1, 2, 598}
\* The timer values the explored time steps keep a stopwatch on.
TimerGrid == {0, 598, 599}
NoPinger == -1

\* An IRC command: its kind and its one relevant parameter.
Cmd(k, a) == [k |-> k, a |-> a]
NoCmd == Cmd("", "")
Welcome == Cmd("WELCOME", "")
\* What the server may put on a stream.
ServerMsgs == {Cmd("PING", t) : t \in Tokens} \cup {Welcome}
MsgSeqs == UNION {[1..n -> ServerMsgs] : n \in 0..MaxMsgs}

\* A deferred command: what to do, to which entity, with which IRC command.
Dc(op, e, c) == [op |-> op, e |-> e, c |-> c]

Range(f) == {f[i] : i \in DOMAIN f}

VARIABLES
    pc,           \* the system that runs next in this tick
    live,         \* the declared sessions (entities with a Connection)
    queue,        \* the deferred commands of this tick, in order
    connecting,   \* Connecting component present
    sender,       \* Sender component present
    stream,       \* Stream component present
    registered,   \* Registered marker present
    identifying,  \* Identifying marker present
    last_ping,    \* Pinger.last_ping elapsed seconds, NoPinger without Pinger
    pingObs,      \* on_ping observers attached to the entity
    welcomeObs,   \* on_welcome observers attached to the entity
    pass,         \* Auth.pass is Some
    channels,     \* Channels.0
    capabilities, \* Capabilities.0
    chansChanged, \* Changed<Channels> as join_channels will see it
    capsChanged,  \* Changed<Capabilities> as request_capabilities will see it
    regAddedJ,    \* Added<Registered> as join_channels will see it
    regAddedC,    \* Added<Registered> as request_capabilities will see it
    observed,     \* channels the server holds the connection joined to
    log,          \* this tick's traffic per session: received and dispatched
    wire,         \* handshake-relevant kinds sent on the current connection,
                  \* each at its first occurrence
    fresh,        \* the Sender was inserted by the last command application
    sendFailAge,  \* 1: a send failed on a Registered session in the tick just
                  \* ended, 2: one full tick later, 0: neither
    recvFailAge,  \* the same for a stream end or read error
    demoted,      \* a send or receive failure has hit the session while it
                  \* carried Registered
    sinceRun      \* "clean": join_channels reconciled the session on its last
                  \* run and neither Channels nor observed changed since

vars == <<pc, live, queue, connecting, sender, stream, registered, identifying,
          last_ping, pingObs, welcomeObs, pass, channels, capabilities,
          chansChanged, capsChanged, regAddedJ, regAddedC, observed, log, wire,
          fresh, sendFailAge, recvFailAge, demoted, sinceRun>>

\* The variables only command application and the caller change.
worldVars == <<connecting, sender, stream, registered, identifying, pingObs,
               welcomeObs, observed, wire, fresh, sendFailAge, recvFailAge,
               demoted>>
callerVars == <<live, pass, channels, capabilities>>

\* The environment may still break this session's connection.
Budget(s) == pingObs[s] < MaxConnects
\* The environment may still fail this session's connect attempt.
ConnectBudget(s) == pingObs[s] <= MaxConnects

\* ------------------------------------------------------------- Init
\* App::world_mut().spawn((Connection, Auth, Channels, Capabilities)): no
\* system has run, so the components count as added (and so changed).
InitWith(ls) ==
    /\ pc = "connect"
    /\ live = ls
    /\ queue = <<>>
    /\ connecting = [s \in Sessions |-> FALSE]
    /\ sender = [s \in Sessions |-> FALSE]
    /\ stream = [s \in Sessions |-> FALSE]
    /\ registered = [s \in Sessions |-> FALSE]
    /\ identifying = [s \in Sessions |-> FALSE]
    /\ last_ping = [s \in Sessions |-> NoPinger]
    /\ pingObs = [s \in Sessions |-> 0]
    /\ welcomeObs = [s \in Sessions |-> 0]
    /\ pass \in [Sessions -> BOOLEAN]
    /\ \A s \in Sessions \ ls : ~pass[s]
    /\ channels \in [Sessions -> ChannelLists]
    /\ \A s \in Sessions \ ls : channels[s] = <<"#b">>
    /\ capabilities \in [Sessions -> CapLists]
    /\ \A s \in Sessions \ ls : capabilities[s] = <<"tags">>
    /\ chansChanged = [s \in Sessions |-> s \in ls]
    /\ capsChanged = [s \in Sessions |-> s \in ls]
    /\ regAddedJ = [s \in Sessions |-> FALSE]
    /\ regAddedC = [s \in Sessions |-> FALSE]
    /\ observed = [s \in Sessions |-> {}]
    /\ log = [s \in Sessions |-> <<>>]
    /\ wire = [s \in Sessions |-> <<>>]
    /\ fresh = [s \in Sessions |-> FALSE]
    /\ sendFailAge = [s \in Sessions |-> 0]
    /\ recvFailAge = [s \in Sessions |-> 0]
    /\ demoted = [s \in Sessions |-> FALSE]
    /\ sinceRun = [s \in Sessions |-> "none"]

Init == InitWith({1})

\* The schedule of one tick: the systems in pipeline order, then the point
\* where the deferred commands of the tick are applied.
Pipeline ==
    << "connect", "poll_connecting", "identify", "join_channels",
       "request_capabilities", "ping", "poll_stream", "apply_deferred" >>

After(p) ==
    LET i == CHOOSE k \in DOMAIN Pipeline : Pipeline[k] = p
    IN Pipeline[(i % Len(Pipeline)) + 1]

\* The sessions of a query, in iteration order, as a sequence.
RECURSIVE Ordered(_)
Ordered(S) ==
    IF S = {} THEN <<>>
    ELSE LET m == CHOOSE x \in S : \A y \in S : x <= y
         IN <<m>> \o Ordered(S \ {m})

RECURSIVE Flatten(_)
Flatten(ss) == IF ss = <<>> THEN <<>> ELSE Head(ss) \o Flatten(Tail(ss))

\* The commands a system pushes: cmds[s] for every session s of its query,
\* in iteration order.
ForEach(query, cmds) ==
    LET ord == Ordered(query)
    IN Flatten([i \in 1..Len(ord) |-> cmds[ord[i]]])

TriggerOut(s, c) == Dc("TriggerOutgoing", s, c)

\* ---------------------------------------------------------- systems
\* Connect without its Without<Connecting> filter.
ConnectQueryIgnoringConnecting(s) == s \in live /\ (~sender[s] \/ ~stream[s])

\* Connect with And in place of Or in its filter: it waits until both the
\* Sender and the Stream are gone.
ConnectQueryBothMissing(s) ==
    s \in live /\ ~connecting[s] /\ ~sender[s] /\ ~stream[s]

\* systems.rs connect: (Without<Connecting>, Or<(Without<Sender>, Without<Stream>)>)
ConnectQuery(s) == s \in live /\ ~connecting[s] /\ (~sender[s] \/ ~stream[s])

ConnectCommands(s) ==
    << Dc("InsertConnectingPinger", s, NoCmd),
       Dc("RemoveRegistered", s, NoCmd),
       Dc("ObservePing", s, NoCmd),
       Dc("ObserveWelcome", s, NoCmd) >>

connect ==
    /\ pc = "connect"
    /\ pc' = After(pc)
    /\ queue' = queue \o ForEach({s \in Sessions : ConnectQuery(s)},
                                 [s \in Sessions |-> ConnectCommands(s)])
    /\ log' = [s \in Sessions |-> <<>>]
    /\ UNCHANGED <<worldVars, callerVars, last_ping, chansChanged, capsChanged,
                   regAddedJ, regAddedC, sinceRun>>

\* systems.rs poll_connecting: res is what check_ready finds in each future.
PollConnectingCommands(s, res) ==
    IF res = "ok" THEN
        << Dc("RemoveConnecting", s, NoCmd),
           Dc("InsertSender", s, NoCmd),
           Dc("InsertStream", s, NoCmd) >>
    ELSE IF res = "err" THEN << Dc("RemoveConnecting", s, NoCmd) >>
    ELSE <<>>

\* What the connect operations may have resolved to when they are polled.
ConnectResults == [Sessions -> {"pending", "ok", "err"}]

\* poll_connecting with the results of the operations drawn from results.
PollConnectingWith(results) ==
    /\ pc = "poll_connecting"
    /\ pc' = After(pc)
    /\ \E res \in results :
        /\ \A s \in Sessions :
            /\ ~(s \in live /\ connecting[s]) => res[s] = "pending"
            /\ res[s] = "err" => ConnectBudget(s)
        /\ queue' = queue \o ForEach({s \in live : connecting[s]},
                    [s \in Sessions |-> PollConnectingCommands(s, res[s])])
        \* error!("Failed to connect")
        /\ log' = [s \in Sessions |->
                    IF res[s] = "err"
                    THEN Append(log[s], [dir |-> "connect", cmd |-> NoCmd, res |-> "failed"])
                    ELSE log[s]]
    /\ UNCHANGED <<worldVars, callerVars, last_ping, chansChanged, capsChanged,
                   regAddedJ, regAddedC, sinceRun>>

poll_connecting == PollConnectingWith(ConnectResults)

\* systems.rs identify: (With<Sender>, Without<Registered>, Without<Identifying>)
IdentifyQuery(s) == s \in live /\ sender[s] /\ ~registered[s] /\ ~identifying[s]

IdentifyCommands(s) ==
    << Dc("InsertIdentifying", s, NoCmd) >>
    \o (IF pass[s] THEN << TriggerOut(s, Cmd("PASS", "pw")) >> ELSE <<>>)
    \o << TriggerOut(s, Cmd("NICK", "nick")) >>

identify ==
    /\ pc = "identify"
    /\ pc' = After(pc)
    /\ queue' = queue \o ForEach({s \in Sessions : IdentifyQuery(s)},
                                 [s \in Sessions |-> IdentifyCommands(s)])
    /\ UNCHANGED <<worldVars, callerVars, last_ping, chansChanged, capsChanged,
                   regAddedJ, regAddedC, sinceRun, log>>

\* join_channels without Added<Registered> in its filter.
JoinChannelsQueryOnChangeOnly(s) ==
    s \in live /\ registered[s] /\ chansChanged[s]

\* systems.rs join_channels:
\* (With<Registered>, Or<(Added<Registered>, Changed<Channels>)>)
JoinChannelsQuery(s) ==
    s \in live /\ registered[s] /\ (regAddedJ[s] \/ chansChanged[s])

JoinChannelsCommands(s) ==
    [i \in 1..Len(channels[s]) |-> TriggerOut(s, Cmd("JOIN", channels[s][i]))]

join_channels ==
    /\ pc = "join_channels"
    /\ pc' = After(pc)
    /\ queue' = queue \o ForEach({s \in Sessions : JoinChannelsQuery(s)},
                                 [s \in Sessions |-> JoinChannelsCommands(s)])
    \* the system has run: what was added or changed before is seen
    /\ regAddedJ' = [s \in Sessions |-> FALSE]
    /\ chansChanged' = [s \in Sessions |-> FALSE]
    /\ sinceRun' = [s \in Sessions |->
                        IF JoinChannelsQuery(s) THEN "clean" ELSE "none"]
    /\ UNCHANGED <<worldVars, callerVars, last_ping, capsChanged, regAddedC, log>>

\* Vec<&str>::join
RECURSIVE JoinStr(_, _)
JoinStr(v, sep) ==
    IF v = <<>> THEN ""
    ELSE IF Len(v) = 1 THEN v[1]
    ELSE v[1] \o sep \o JoinStr(Tail(v), sep)

\* systems.rs request_capabilities:
\* (With<Registered>, Or<(Added<Registered>, Changed<Capabilities>)>)
RequestCapabilitiesQuery(s) ==
    s \in live /\ registered[s] /\ (regAddedC[s] \/ capsChanged[s])

\* One request per capability instead of one combined request.
RequestCapabilitiesCommandsPerCapability(s) ==
    [i \in 1..Len(capabilities[s]) |->
        TriggerOut(s, Cmd("CAP REQ", capabilities[s][i]))]

RequestCapabilitiesCommands(s) ==
    << TriggerOut(s, Cmd("CAP REQ", JoinStr(capabilities[s], " "))) >>

request_capabilities ==
    /\ pc = "request_capabilities"
    /\ pc' = After(pc)
    /\ queue' = queue \o ForEach({s \in Sessions : RequestCapabilitiesQuery(s)},
                                 [s \in Sessions |-> RequestCapabilitiesCommands(s)])
    /\ regAddedC' = [s \in Sessions |-> FALSE]
    /\ capsChanged' = [s \in Sessions |-> FALSE]
    /\ UNCHANGED <<worldVars, callerVars, last_ping, chansChanged, regAddedJ,
                   sinceRun, log>>

Perms(S) == {f \in [1..Cardinality(S) -> S] : \A i, j \in DOMAIN f : f[i] = f[j] => i = j}

\* systems.rs ping, the loop over `pingers` from position i of the iteration
\* order on: the stopwatch is ticked, and below the threshold the system
\* returns.  The result is the timers and the commands pushed.
RECURSIVE PingLoop(_, _, _, _, _)
PingLoop(ord, i, delta, lp, cmds) ==
    IF i > Len(ord) THEN [lp |-> lp, cmds |-> cmds]
    ELSE LET s == ord[i]
             t == lp[s] + delta
         IN IF t < PingThreshold
            THEN [lp |-> [lp EXCEPT ![s] = t], cmds |-> cmds]
            ELSE PingLoop(ord, i + 1, delta, [lp EXCEPT ![s] = 0],
                          Append(cmds, TriggerOut(s, Cmd("PING", ""))))

ping ==
    /\ pc = "ping"
    /\ pc' = After(pc)
    /\ \E delta \in Deltas, ord \in Perms({s \in live : last_ping[s] # NoPinger}) :
        /\ \A s \in live : last_ping[s] # NoPinger =>
                \/ last_ping[s] + delta \in TimerGrid
                \/ last_ping[s] + delta >= PingThreshold
        /\ LET r == PingLoop(ord, 1, delta, last_ping, <<>>)
           IN /\ last_ping' = r.lp
              /\ queue' = queue \o r.cmds
    /\ UNCHANGED <<worldVars, callerVars, chansChanged, capsChanged, regAddedJ,
                   regAddedC, sinceRun, log>>

\* systems.rs poll_stream: msgs are the messages ready on each stream and
\* last is what the stream reports after them.
PollStreamCommands(s, msgs, last) ==
    Flatten([i \in 1..Len(msgs) |->
                << Dc("TriggerIncomingCommand", s, msgs[i]),
                   Dc("TriggerIncomingMessage", s, msgs[i]) >>])
    \o (IF last \in {"end", "err"} THEN << Dc("RemoveStream", s, NoCmd) >> ELSE <<>>)

\* What the streams may hold when they are polled: the messages ready on
\* each, and what each reports after them.
StreamMsgs == [Sessions -> MsgSeqs]
StreamEnds == [Sessions -> {"pending", "end", "err"}]

\* poll_stream with the content of the streams drawn from ready and ends.
PollStreamWith(ready, ends) ==
    /\ pc = "poll_stream"
    /\ pc' = After(pc)
    /\ \E msgs \in ready, last \in ends :
        /\ \A s \in Sessions :
            /\ ~(s \in live /\ stream[s]) => msgs[s] = <<>> /\ last[s] = "pending"
            /\ last[s] # "pending" => Budget(s)
        /\ queue' = queue \o ForEach({s \in live : stream[s]},
                    [s \in Sessions |-> PollStreamCommands(s, msgs[s], last[s])])
    /\ UNCHANGED <<worldVars, callerVars, last_ping, chansChanged, capsChanged,
                   regAddedJ, regAddedC, sinceRun, log>>

poll_stream == PollStreamWith(StreamMsgs, StreamEnds)

\* ------------------------------------------- applying the commands
\* The world while commands are applied; failAt[s] is the send attempt of
\* this application (counted per session) on which Sender::send returns an
\* error, 0 for none.
World(failAt) ==
    [ connecting |-> connecting, sender |-> sender, stream |-> stream,
      registered |-> registered, identifying |-> identifying,
      last_ping |-> last_ping, pingObs |-> pingObs, welcomeObs |-> welcomeObs,
      regAddedJ |-> regAddedJ, regAddedC |-> regAddedC, observed |-> observed,
      log |-> log, wire |-> wire, sinceRun |-> sinceRun,
      failAt |-> failAt, attempts |-> [s \in Sessions |-> 0],
      inserted |-> {}, sendFailed |-> {}, recvFailed |-> {}, demoted |-> {} ]

Logged(w, s, dir, c, res) ==
    [w EXCEPT !.log[s] = Append(@, [dir |-> dir, cmd |-> c, res |-> res])]

HandshakeKinds == {"PASS", "NICK", "JOIN", "PART", "CAP REQ"}

\* The transport took the command: the connection's record of first
\* occurrences, and the server joining the connection to a channel it is
\* asked to join.
Sent(w, s, c) ==
    LET w1 == IF c.k \in HandshakeKinds /\ c.k \notin Range(w.wire[s])
              THEN [w EXCEPT !.wire[s] = Append(@, c.k)] ELSE w
    IN IF c.k = "JOIN" /\ c.a \notin w1.observed[s]
       THEN [w1 EXCEPT !.observed[s] = @ \cup {c.a}, !.sinceRun[s] = "dirty"]
       ELSE w1

\* send that, finding no Sender, also drops the session's Stream.
sendDroppingStreamWithoutSender(w, s, c) ==
    IF ~w.sender[s]
    THEN [Logged(w, s, "out", c, "nosender") EXCEPT !.stream[s] = FALSE]
    ELSE LET n == w.attempts[s] + 1
             w1 == [w EXCEPT !.attempts[s] = n]
         IN IF n = w.failAt[s]
            THEN [Logged(w1, s, "out", c, "failed") EXCEPT
                    !.sender[s] = FALSE,
                    !.sendFailed = IF w.registered[s] THEN @ \cup {s} ELSE @,
                    !.demoted = IF w.registered[s] THEN @ \cup {s} ELSE @]
            ELSE Sent(Logged(w1, s, "out", c, "sent"), s, c)

\* send with a failure handler that removes the Sender of every session.
sendDroppingEverySender(w, s, c) ==
    IF ~w.sender[s] THEN Logged(w, s, "out", c, "nosender")
    ELSE LET n == w.attempts[s] + 1
             w1 == [w EXCEPT !.attempts[s] = n]
         IN IF n = w.failAt[s]
            THEN [Logged(w1, s, "out", c, "failed") EXCEPT
                    !.sender = [x \in Sessions |-> FALSE]]
            ELSE Sent(Logged(w1, s, "out", c, "sent"), s, c)

\* observers.rs send (systems.rs send): the observer of Outgoing<T>, with its
\* own command (remove::<Sender>) applied.
send(w, s, c) ==
    IF ~w.sender[s] THEN Logged(w, s, "out", c, "nosender")
    ELSE LET n == w.attempts[s] + 1
             w1 == [w EXCEPT !.attempts[s] = n]
         IN IF n = w.failAt[s]
            THEN [Logged(w1, s, "out", c, "failed") EXCEPT
                    !.sender[s] = FALSE,
                    !.sendFailed = IF w.registered[s] THEN @ \cup {s} ELSE @,
                    !.demoted = IF w.registered[s] THEN @ \cup {s} ELSE @]
            ELSE Sent(Logged(w1, s, "out", c, "sent"), s, c)

\* observers.rs on_ping: the commands one on_ping observer pushes.
on_ping(s, c) ==
    IF c.k = "PING" THEN << TriggerOut(s, Cmd("PONG", c.a)) >> ELSE <<>>

\* on_welcome without its remove::<Identifying>().
on_welcomeKeepingIdentifying(s, c) ==
    IF c.k = "WELCOME" THEN << Dc("InsertRegistered", s, NoCmd) >> ELSE <<>>

\* observers.rs on_welcome: the commands one on_welcome observer pushes.
on_welcome(s, c) ==
    IF c.k = "WELCOME"
    THEN << Dc("RemoveIdentifying", s, NoCmd), Dc("InsertRegistered", s, NoCmd) >>
    ELSE <<>>

\* Every observer of Incoming<irc::Command> attached to the entity runs, and
\* then the commands they pushed are applied.
ObserverCommands(w, s, c) ==
    Flatten([i \in 1..w.pingObs[s] |-> on_ping(s, c)])
    \o Flatten([i \in 1..w.welcomeObs[s] |-> on_welcome(s, c)])

RECURSIVE ApplyAll(_, _)
ApplyCommand(w, d) ==
    LET s == d.e IN
    CASE d.op = "InsertConnectingPinger" ->
            [w EXCEPT !.connecting[s] = TRUE, !.last_ping[s] = 0]
      [] d.op = "RemoveRegistered" -> [w EXCEPT !.registered[s] = FALSE]
      [] d.op = "ObservePing" -> [w EXCEPT !.pingObs[s] = @ + 1]
      [] d.op = "ObserveWelcome" -> [w EXCEPT !.welcomeObs[s] = @ + 1]
      [] d.op = "RemoveConnecting" -> [w EXCEPT !.connecting[s] = FALSE]
      [] d.op = "InsertSender" ->
            [w EXCEPT !.sender[s] = TRUE, !.wire[s] = <<>>,
                      !.observed[s] = {}, !.inserted = @ \cup {s},
                      !.sinceRun[s] = IF w.observed[s] = {} THEN @ ELSE "dirty"]
      [] d.op = "InsertStream" -> [w EXCEPT !.stream[s] = TRUE]
      [] d.op = "RemoveStream" ->
            [w EXCEPT !.stream[s] = FALSE, !.recvFailed = @ \cup {s},
                      !.demoted = IF w.registered[s] THEN @ \cup {s} ELSE @]
      [] d.op = "InsertIdentifying" -> [w EXCEPT !.identifying[s] = TRUE]
      [] d.op = "RemoveIdentifying" -> [w EXCEPT !.identifying[s] = FALSE]
      [] d.op = "InsertRegistered" ->
            IF w.registered[s] THEN w
            ELSE [w EXCEPT !.registered[s] = TRUE, !.regAddedJ[s] = TRUE,
                           !.regAddedC[s] = TRUE]
      [] d.op = "TriggerOutgoing" -> send(w, s, d.c)
      [] d.op = "TriggerIncomingCommand" ->
            ApplyAll(Logged(w, s, "in", d.c, "-"), ObserverCommands(w, s, d.c))
      [] d.op = "TriggerIncomingMessage" -> w

ApplyAll(w, q) ==
    IF q = <<>> THEN w ELSE ApplyAll(ApplyCommand(w, Head(q)), Tail(q))

\* The sends one session can attempt in one tick: PASS, NICK, a JOIN per
\* channel, CAP REQ, PING, and a PONG per on_ping observer and message.
MaxSends == 6 + MaxMsgs * (MaxConnects + 1)

Aged(age, hit) == IF hit THEN 1 ELSE IF age = 1 THEN 2 ELSE 0

\* Which send attempt of each session may fail in one command application.
SendFailures == [Sessions -> 0..MaxSends]

\* The schedule's last step: the deferred commands of the tick are applied in
\* order, each trigger running its observers; the failing sends are drawn
\* from failures.
ApplyDeferredWith(failures) ==
    /\ pc = "apply_deferred"
    /\ pc' = After(pc)
    /\ \E failAt \in failures :
            /\ \A s \in Sessions : failAt[s] > 0 => s \in live /\ Budget(s)
            /\ LET w == ApplyAll(World(failAt), queue)
               IN /\ connecting' = w.connecting
                  /\ sender' = w.sender
                  /\ stream' = w.stream
                  /\ registered' = w.registered
                  /\ identifying' = w.identifying
                  /\ last_ping' = w.last_ping
                  /\ pingObs' = w.pingObs
                  /\ welcomeObs' = w.welcomeObs
                  /\ regAddedJ' = w.regAddedJ
                  /\ regAddedC' = w.regAddedC
                  /\ observed' = w.observed
                  /\ log' = w.log
                  /\ wire' = w.wire
                  /\ sinceRun' = w.sinceRun
                  /\ fresh' = [s \in Sessions |-> s \in w.inserted]
                  /\ sendFailAge' = [s \in Sessions |->
                                        Aged(sendFailAge[s], s \in w.sendFailed)]
                  /\ recvFailAge' = [s \in Sessions |->
                                        Aged(recvFailAge[s], s \in w.recvFailed)]
                  /\ demoted' = [s \in Sessions |-> demoted[s] \/ s \in w.demoted]
                  \* the send chosen to fail was attempted
                  /\ \A s \in Sessions : failAt[s] <= w.attempts[s]
    /\ queue' = <<>>
    /\ UNCHANGED <<callerVars, chansChanged, capsChanged>>

apply_deferred == ApplyDeferredWith(SendFailures)

\* ------------------------------------------------------- the caller
\* Between two ticks the caller mutates a session's Channels.
SetChannels ==
    /\ pc = "connect"
    /\ \E s \in live, v \in ChannelLists :
        /\ v # channels[s]
        /\ channels' = [channels EXCEPT ![s] = v]
        /\ chansChanged' = [chansChanged EXCEPT ![s] = TRUE]
        /\ sinceRun' = [sinceRun EXCEPT ![s] = "dirty"]
    /\ UNCHANGED <<pc, live, queue, worldVars, last_ping, pass, capabilities,
                   capsChanged, regAddedJ, regAddedC, log>>

\* Between two ticks the caller mutates a session's Capabilities.
SetCapabilities ==
    /\ pc = "connect"
    /\ \E s \in live, v \in CapLists :
        /\ v # capabilities[s]
        /\ capabilities' = [capabilities EXCEPT ![s] = v]
        /\ capsChanged' = [capsChanged EXCEPT ![s] = TRUE]
    /\ UNCHANGED <<pc, live, queue, worldVars, last_ping, pass, channels,
                   chansChanged, regAddedJ, regAddedC, log, sinceRun>>

Next ==
    \/ connect
    \/ poll_connecting
    \/ identify
    \/ join_channels
    \/ request_capabilities
    \/ ping
    \/ poll_stream
    \/ apply_deferred
    \/ SetChannels
    \/ SetCapabilities

Spec == Init /\ [][Next]_vars

\* ------------------------------------------------------ two sessions
\* Two declared sessions.  The environment is free on session 1 (its connect
\* operation may stay pending or fail, its stream may end or carry a welcome
\* at any time, its sends may fail) and plain on session 2: its connect
\* operation resolves Ok when first polled, its stream carries the welcome
\* once the session is Identifying and never ends, and none of its sends
\* fails.  The server sends no PING.
InitTwo ==
    /\ InitWith({1, 2})
    /\ pass = [s \in Sessions |-> FALSE]
    /\ channels = [s \in Sessions |-> <<"#b">>]
    /\ capabilities = [s \in Sessions |-> <<"tags">>]

TwoPollConnecting ==
    PollConnectingWith({r \in ConnectResults :
                            r[2] = IF connecting[2] THEN "ok" ELSE "pending"})

TwoPollStream ==
    PollStreamWith({m \in StreamMsgs :
                        /\ m[1] \in {<<>>, <<Welcome>>}
                        /\ m[2] = IF stream[2] /\ identifying[2]
                                  THEN <<Welcome>> ELSE <<>>},
                   {l \in StreamEnds : l[2] = "pending"})

TwoApplyDeferred ==
    ApplyDeferredWith({f \in SendFailures : f[2] = 0})

TickTwo ==
    \/ connect
    \/ TwoPollConnecting
    \/ identify
    \/ join_channels
    \/ request_capabilities
    \/ ping
    \/ TwoPollStream
    \/ TwoApplyDeferred

SpecTwo == InitTwo /\ [][TickTwo]_vars

\* ------------------------------------------------------------ claims
\* The commands a step of a system pushed, and among them the parameters of
\* the outgoing commands of kind k for session s.
Pushed == SubSeq(queue', Len(queue) + 1, Len(queue'))
PushedFor(s) == SelectSeq(Pushed, LAMBDA d : d.e = s)
PushedArgs(s, k) ==
    {d.c.a : d \in {x \in Range(Pushed) : x.op = "TriggerOutgoing" /\ x.e = s /\ x.c.k = k}}

\* C1: at every tick boundary a session that carries Registered has a Sender
\* and a Stream.
C1_RegisteredHasSenderAndStream ==
    pc = "connect" => \A s \in live : registered[s] => sender[s] /\ stream[s]

\* C2: a session's Sender and Stream are both present or both absent.
C2_SenderIffStream ==
    \A s \in live : sender[s] <=> stream[s]

\* C3: one tick after a send failed on a Registered session, the session has
\* no Sender, no Stream and no Registered marker.
C3_SendFailureDisconnects ==
    \A s \in live :
        sendFailAge[s] = 2 => ~sender[s] /\ ~stream[s] /\ ~registered[s]

\* C4: one tick after a stream ended or failed to read, the session has no
\* Stream, no Sender and no Registered marker.
C4_StreamEndDisconnects ==
    \A s \in live :
        recvFailAge[s] = 2 => ~stream[s] /\ ~sender[s] /\ ~registered[s]

\* C5: once a connection has been in place for a full tick (identify has run
\* with its Sender present and the sends did not fail), NICK has been sent
\* over that connection.
C5_HandshakeOnEveryConnection ==
    \A s \in live :
        (pc = "connect" /\ sender[s] /\ stream[s] /\ ~fresh[s])
            => "NICK" \in Range(wire[s])

\* C6: in every tick, for every token, as many PONGs with the token are
\* dispatched for a session as PINGs with the token were received on it.
C6_OnePongPerPing ==
    pc = "connect" =>
        \A s \in live, t \in Tokens :
            Len(SelectSeq(log[s], LAMBDA r : r.dir = "out" /\ r.cmd = Cmd("PONG", t)))
              = Len(SelectSeq(log[s], LAMBDA r : r.dir = "in" /\ r.cmd = Cmd("PING", t)))

\* C7: a run of channel reconciliation emits JOIN for exactly the desired
\* channels that are not observed and PART for exactly the observed channels
\* that are not desired.
C7_ReconcilesDelta ==
    [][(pc = "join_channels" /\ pc' # pc) =>
        \A s \in live :
            JoinChannelsQuery(s) =>
                /\ PushedArgs(s, "JOIN") = Range(channels[s]) \ observed[s]
                /\ PushedArgs(s, "PART") = observed[s] \ Range(channels[s])]_vars

\* C8: when channel reconciliation ran for a session and neither Channels nor
\* the observed channels changed since, its next run emits nothing for it.
C8_ReconcileIdempotent ==
    \A s \in live :
        (pc = "join_channels" /\ sinceRun[s] = "clean") => ~JoinChannelsQuery(s)

\* The payload of a capability request for the capability lists of the model.
ExpectedPayload(v) ==
    IF v = <<"tags">> THEN "tags"
    ELSE IF v = <<"tags", "commands">> THEN "tags commands"
    ELSE ""

Before(w, a, b) ==
    \E i, j \in DOMAIN w : i < j /\ w[i] = a /\ w[j] = b

\* C10: on every connection of a session with a password, PASS is sent before
\* NICK, and both are sent before any JOIN, PART or CAP REQ.
C10_HandshakeBeforeReconcile ==
    \A s \in live :
        pass[s] =>
            /\ "NICK" \in Range(wire[s]) => Before(wire[s], "PASS", "NICK")
            /\ \A k \in {"JOIN", "PART", "CAP REQ"} :
                k \in Range(wire[s]) =>
                    Before(wire[s], "PASS", "NICK") /\ Before(wire[s], "NICK", k)

\* The deferred commands of kind op for session s among the commands q.
OpsFor(q, s, op) == SelectSeq(q, LAMBDA d : d.e = s /\ d.op = op)

\* C11: whenever a command application makes a session Registered that was
\* not Registered before, the session carried Identifying before it or was
\* given Identifying by the commands of the same tick: Registered is entered
\* only from Identifying.
C11_RegisteredOnlyFromIdentifying ==
    [][\A s \in live :
        (~registered[s] /\ registered'[s]) =>
            \/ identifying[s]
            \/ OpsFor(queue, s, "InsertIdentifying") # <<>>]_vars

\* C12: a step starts a connect attempt for a session only when it is the
\* connect system, the session has no attempt in flight (no Connecting), and
\* it then starts exactly one; no other system starts one.
C12_OneConnectInFlight ==
    [][\A s \in live :
        LET n == Len(OpsFor(Pushed, s, "InsertConnectingPinger"))
        IN /\ n <= 1
           /\ n = 1 => pc = "connect" /\ ~connecting[s]
           /\ (pc = "connect" /\ pc' # pc /\ ~connecting[s]
                 /\ ~(sender[s] /\ stream[s])) => n = 1]_vars

\* C12 witness: connect ran over a session whose attempt is in flight and
\* started nothing.
C12_Witness ==
    /\ pc = "poll_connecting"
    /\ connecting[1] /\ ~sender[1] /\ ~stream[1]
    /\ pingObs[1] = 1
    /\ queue = <<>>

\* The connect operation of the session resolved with an error in the tick
\* that just ended.
ConnectFailed(s) ==
    \E i \in DOMAIN log[s] : log[s][i].dir = "connect" /\ log[s][i].res = "failed"

\* C13: at the tick boundary after a session's connect operation resolved
\* with an error the session is Disconnected (no Connecting, Registered or
\* Identifying marker), that tick created no Sender for it, and the connect
\* system of the following tick starts a fresh attempt for it.
C13_ConnectErrorDisconnects ==
    [][(pc = "connect" /\ pc' # pc) =>
        \A s \in live :
            ConnectFailed(s) =>
                /\ ~connecting[s] /\ ~registered[s] /\ ~identifying[s]
                /\ ~fresh[s]
                /\ Len(OpsFor(Pushed, s, "InsertConnectingPinger")) = 1]_vars

\* One step of the schedule.  The host loop runs the schedule every frame, so
\* a tick that has started is completed and followed by the next one; the
\* caller's mutations do not hold it up.
Tick ==
    \/ connect
    \/ poll_connecting
    \/ identify
    \/ join_channels
    \/ request_capabilities
    \/ ping
    \/ poll_stream
    \/ apply_deferred

\* A session declared with a password, two channels and two capabilities
\* that the caller then leaves alone.
InitFixed ==
    /\ InitWith({1})
    /\ pass[1]
    /\ channels[1] = <<"#a", "#b">>
    /\ capabilities[1] = <<"tags", "commands">>

\* Every system that is due runs, and the command application that ends a
\* tick completes.
FairSpec ==
    /\ InitFixed /\ [][Tick]_vars
    /\ WF_vars(connect) /\ WF_vars(poll_connecting) /\ WF_vars(identify)
    /\ WF_vars(join_channels) /\ WF_vars(request_capabilities)
    /\ WF_vars(ping) /\ WF_vars(poll_stream)
    /\ []<>(pc # "apply_deferred")

\* A send, a stream read or a connect operation of the session failed in the
\* tick that just ended.
Failed(s) ==
    /\ pc = "connect"
    /\ s \in live
    /\ \/ \E i \in DOMAIN log[s] : log[s][i].res = "failed"
       \/ recvFailAge[s] = 1

\* C14: after a tick in which a send, a receive or a connect operation of a
\* session failed, the session eventually has a connect operation in flight
\* again.
C14_FailureLeadsToReconnect ==
    \A s \in Sessions : Failed(s) ~> connecting[s]

\* C14 witness: one tick after its stream ended the session is Connecting.
C14_Witness ==
    pc = "connect" /\ recvFailAge[1] = 2 /\ connecting[1] /\ pingObs[1] = 2

C18_TimerResetOnlyOnPing ==
    [][\A s \in live :
        (last_ping[s] # NoPinger /\ last_ping'[s] # last_ping[s]) =>
            /\ pc = "ping"
            /\ last_ping'[s] = 0 =>
                    TriggerOut(s, Cmd("PING", "")) \in Range(Pushed)]_vars

\* The dispatch of the handshake command of kind k failed for the session in
\* the tick that just ended.
HandshakeSendFailed(s, k) ==
    \E i \in DOMAIN log[s] :
        log[s][i].dir = "out" /\ log[s][i].cmd.k = k /\ log[s][i].res = "failed"

\* C20: at the end of a tick in which the send of PASS or NICK failed for a
\* session, the session does not carry Identifying, and after a failed PASS
\* no NICK went out.
C20_FailedHandshakeDoesNotAdvance ==
    pc = "connect" =>
        \A s \in live :
            /\ (HandshakeSendFailed(s, "PASS") \/ HandshakeSendFailed(s, "NICK"))
                    => ~identifying[s]
            /\ HandshakeSendFailed(s, "PASS") =>
                    ~\E i \in DOMAIN log[s] :
                        log[s][i].cmd.k = "NICK" /\ log[s][i].res = "sent"

\* The sessions with an idle timer.
Pingers == {s \in live : last_ping[s] # NoPinger}

\* C16: a keepalive step advances the idle timer of every session that has
\* one by the same elapsed time delta (setting it back to zero where it emits
\* the session's PING), whatever the timers of the other sessions are.
C16_EveryTimerAdvances ==
    [][(pc = "ping" /\ pc' # pc) =>
        \E delta \in Deltas :
            \A s \in Pingers :
                \/ last_ping'[s] = last_ping[s] + delta
                \/ /\ last_ping'[s] = 0
                   /\ TriggerOut(s, Cmd("PING", "")) \in Range(Pushed)]_vars

\* C17: with delta the elapsed time of the tick, the keepalive step emits for
\* a session whose timer plus delta is at least 600 exactly one PING with an
\* empty parameter and leaves its timer at zero; for a session whose timer
\* plus delta is below 600 it emits nothing, and the timer it advanced holds
\* the sum.
C17_PingAtThreshold ==
    [][(pc = "ping" /\ pc' # pc) =>
        \E delta \in Deltas :
            \A s \in Pingers :
                IF last_ping[s] + delta >= PingThreshold
                THEN /\ PushedFor(s) = << TriggerOut(s, Cmd("PING", "")) >>
                     /\ last_ping'[s] = 0
                ELSE /\ PushedFor(s) = <<>>
                     /\ last_ping'[s] # last_ping[s] =>
                            last_ping'[s] = last_ping[s] + delta]_vars

\* What the commands of session s alone make of the session when they are
\* applied with its send attempt f failing and no other send failing.
OwnOutcome(s, f) ==
    ApplyAll(World([x \in Sessions |-> IF x = s THEN f ELSE 0]),
             SelectSeq(queue, LAMBDA d : d.e = s))

NewLog(s) == SubSeq(log'[s], Len(log[s]) + 1, Len(log'[s]))

\* The commands of kind k that a command application handed to the transport
\* for the session.
SentNow(s, k) ==
    SelectSeq(NewLog(s), LAMBDA r : r.dir = "out" /\ r.cmd.k = k /\ r.res = "sent")

\* C21: identify pushes nothing for a session that carries Identifying or
\* Registered, and over one connection PASS and NICK each reach the transport
\* at most once: a command application sends each at most once, and not at
\* all when it went out over the session's connection before and the
\* application installs no new connection.
C21_HandshakeOncePerConnection ==
    [][pc' # pc =>
        \A s \in live :
            /\ (pc = "identify" /\ PushedFor(s) # <<>>) =>
                    ~identifying[s] /\ ~registered[s]
            /\ pc = "apply_deferred" =>
                \A k \in {"PASS", "NICK"} :
                    /\ Len(SentNow(s, k)) <= 1
                    /\ (k \in Range(wire[s]) /\ OpsFor(queue, s, "InsertSender") = <<>>)
                            => SentNow(s, k) = <<>>]_vars

\* The commands of the tick for the session are dispatches only.
OnlySends(s) ==
    /\ OpsFor(queue, s, "TriggerOutgoing") # <<>>
    /\ \A i \in DOMAIN queue : queue[i].e = s => queue[i].op = "TriggerOutgoing"

\* C22: a command application that only dispatches commands for a session,
\* none of which the transport refuses, leaves the session's Connecting,
\* Sender, Stream, Registered and Identifying components, its idle timer and
\* its observers as they were; when the session has no Sender every dispatch
\* is reported as a failure to find the sender and nothing reaches the
\* transport.
C22_DispatchWithoutSideEffect ==
    [][(pc = "apply_deferred" /\ pc' # pc) =>
        \A s \in live :
            (OnlySends(s) /\ \A i \in DOMAIN NewLog(s) : NewLog(s)[i].res # "failed") =>
                /\ connecting'[s] = connecting[s]
                /\ sender'[s] = sender[s]
                /\ stream'[s] = stream[s]
                /\ registered'[s] = registered[s]
                /\ identifying'[s] = identifying[s]
                /\ last_ping'[s] = last_ping[s]
                /\ pingObs'[s] = pingObs[s]
                /\ welcomeObs'[s] = welcomeObs[s]
                /\ ~sender[s] =>
                    /\ wire'[s] = wire[s]
                    /\ observed'[s] = observed[s]
                    /\ Len(NewLog(s)) = Len(OpsFor(queue, s, "TriggerOutgoing"))
                    /\ \A i \in DOMAIN NewLog(s) : NewLog(s)[i].res = "nosender"]_vars

\* C22 witness: the keepalive PING of a session that is Connecting, has no
\* Sender and still has a Stream was dispatched and found no sender.
C22_Witness ==
    /\ pc = "connect"
    /\ log[1] = << [dir |-> "out", cmd |-> Cmd("PING", ""), res |-> "nosender"] >>
    /\ connecting[1] /\ ~sender[1] /\ stream[1]

\* C23: a session with a connect operation in flight has neither a Sender
\* nor a Stream.
C23_ConnectingHasNoConnection ==
    \A s \in live : connecting[s] => ~sender[s] /\ ~stream[s]

====
